---- MODULE Spec2Model ----
(***************************************************************************)
(* Model of src/main.py: the assistant run loop chat_with_assistant, the   *)
(* tool dispatcher handle_function_call, and the Streamlit session that    *)
(* drives them through process_user_input and the Clear Chat button.       *)
(*                                                                         *)
(* The remote assistant service and the market-data provider are the       *)
(* environment: every remote call either fails (raises) or returns one of  *)
(* the values the service can return.  The remote run advances only when   *)
(* it is observed (create, retrieve, submit_tool_outputs).                 *)
(***************************************************************************)
EXTENDS Naturals, Sequences, FiniteSets, TLC

\* ---------------------------------------------------------------- bounds
\* Number of process_user_input calls explored in one session.
MaxPrompts == 2
\* Largest number of tool calls the remote service puts in one batch.
MaxCalls == 2
\* Largest number of requires_action batches the remote issues for one Run.
MaxRounds == 2
\* Largest number of assistants the remote creates for one session.
MaxAssistants == 2
\* Texts given to text_to_speech are at most this far from the two ends of
\* the interval from the empty text to the limit, or beyond the limit.
MaxSlack == 12

\* Number of get_stock_data calls explored.
MaxLookups == 4
\* Number of clock advances explored, each of half the cache window.
MaxTicks == 4

\* ------------------------------------------------------ program constants
\* ttl of the cache of get_stock_data, in seconds (main.py:32).
CacheTtl == 300
\* The limit of text_to_speech (main.py:177-178).
TtsLimit == 4000

\* ------------------------------------------------------------ vocabulary
\* Python None for thread and run handles.
None == 0

\* Statuses the loop keeps iterating on (the list at main.py:225).
ACTIVE == {"queued", "in_progress", "requires_action"}
\* Statuses after which the remote service makes no further progress.
\* "incomplete" stands for a status outside the vocabulary of the spec.
TERMINAL == {"completed", "failed", "cancelled", "expired", "incomplete"}
Statuses == ACTIVE \cup TERMINAL

\* Tool names the remote run may request: the two registered ones (main.py:
\* 138, 155) and one that is not registered.
ToolNames == {"get_stock_data", "get_market_overview", "get_weather"}

\* Texts of tool_call.function.arguments: an object with a symbol, an empty
\* object, valid JSON that is no object, and malformed JSON.
ArgTexts == {"{\"symbol\": \"aapl\"}", "{}", "[]", "{bad"}

\* The (name, arguments) pairs the remote run requests: get_stock_data with
\* each argument text; get_market_overview, which takes none, with an empty
\* object; the unregistered tool with a well-formed and a malformed text.
ToolCallShapes ==
    ({"get_stock_data"} \X ArgTexts)
    \cup {<<"get_market_overview", "{}">>}
    \cup ({"get_weather"} \X {"{}", "{bad"})

\* What the user types into the chat input, in order (typed text, then the
\* Market Summary quick action of main.py:439).
Prompts == <<"What's Apple's stock price?", "Give me today's market summary">>

\* Texts of assistant messages held by the remote thread.
Texts == {"AAPL trades at 150.0", "Markets are mixed"}

\* Message lists messages.list can return, most recent first: each message
\* is its sequence of content parts.
TextPart(t) == [type |-> "text", value |-> t]
ImagePart == [type |-> "image_file", value |-> ""]
RemoteMessages ==
    {<<>>}
    \cup {<< <<TextPart(t)>> >> : t \in Texts}
    \cup {<< <<TextPart(t)>>, <<TextPart(u)>> >> : t \in Texts, u \in Texts}
    \cup {<< <<>> >>, << <<ImagePart>> >>}

\* API keys typed into the sidebar, as their characters: nothing, a long key
\* with another prefix, and keys with the prefix "sk-" of 8, 20 and 21
\* characters.
Chars(n) == [i \in 1..n |-> "x"]
Sk == <<"s", "k", "-">>
ApiKeys ==
    { <<>>,
      <<"p", "k", "-">> \o Chars(18),
      Sk \o Chars(5),
      Sk \o Chars(17),
      Sk \o Chars(18) }

\* The key of a session that is already configured.
ConfiguredKey == Sk \o Chars(18)

\* Texts handed to text_to_speech, as their characters: the digits in
\* turn, or one letter repeated, in the lengths around 0 and the limit.
Digits == <<"0", "1", "2", "3", "4", "5", "6", "7", "8", "9">>
DigitText(n) == [i \in 1..n |-> Digits[(i % 10) + 1]]
LetterText(n) == [i \in 1..n |-> "a"]
SpeechLengths == (0..MaxSlack) \cup ((TtsLimit - MaxSlack)..(TtsLimit + MaxSlack))
SpeechTexts ==
    {DigitText(n) : n \in SpeechLengths} \cup {LetterText(n) : n \in SpeechLengths}

\* Arguments get_stock_data is called with.
Symbols == {"aapl", "AAPL"}

\* ------------------------------------------------------------- variables
VARIABLES
    session_thread_id,  \* st.session_state.thread_id
    session_messages,   \* st.session_state.messages
    prompts,            \* process_user_input calls made so far
    pc,                 \* position of the script / of chat_with_assistant
    thread_id,          \* chat_with_assistant's thread_id
    run,                \* chat_with_assistant's run object
    tool_calls,         \* the batch read at main.py:227
    tool_outputs,       \* the list built at main.py:228-237
    taken,              \* tool calls the for loop of main.py:230 has taken
    messages_data,      \* messages.data of main.py:249
    response,           \* the pair chat_with_assistant returned
    exc,                \* the exception caught at main.py:255, if any
    threads,            \* remote: number of threads created
    runs,               \* remote: the runs created, by run id
    sent,               \* remote: submit_tool_outputs request in flight
    rounds,             \* remote: batches issued to this call's run
    invoked,            \* per tool output: the market-data function called
    handled_for,        \* run statuses under which a tool handler was invoked
    looped,             \* the while body of main.py:225 was entered
    listed,             \* messages.list was called
    error_sent,         \* a submitted tool output carried an "error" member
    openai_api_key,     \* st.session_state.openai_api_key
    session_assistant_id, \* st.session_state.assistant_id
    assistants,         \* remote: number of assistants created
    assistant_id,       \* chat_with_assistant's assistant_id
    posted,             \* messages.create returned in this call
    cache,              \* st.cache_data entries of get_stock_data, by argument
    now,                \* the clock of the cache, in seconds
    upstream,           \* provider fetches made by get_stock_data
    provided,           \* per argument, the latest value fetched, and when
    last,               \* the latest get_stock_data call and its result
    tts_text,           \* text_to_speech's text argument
    tts_input,          \* the input= text_to_speech sent to the speech service
    tts_audio           \* what text_to_speech returned

vars == <<session_thread_id, session_messages, prompts, pc, thread_id, run,
          tool_calls, tool_outputs, taken, messages_data, response, exc, threads,
          runs, sent, rounds, invoked, handled_for, looped, listed, error_sent,
          openai_api_key, session_assistant_id, assistants, assistant_id, posted,
          cache, now, upstream, provided, last, tts_text, tts_input,
          tts_audio>>

session == <<session_thread_id, session_messages, prompts>>
frame == <<thread_id, run, tool_calls, tool_outputs, taken, messages_data,
           response, exc>>
remote == <<threads, runs, sent, rounds>>
ghost == <<invoked, handled_for, looped, listed, error_sent>>
config == <<openai_api_key, session_assistant_id, assistants>>
gateway == <<cache, now, upstream, provided, last>>
speech == <<tts_text, tts_input, tts_audio>>

NoRun == [id |-> None, status |-> "none", tool_calls |-> <<>>]
NoExc == [type |-> "none", at |-> "none"]
NoSent == [run_id |-> None, tool_outputs |-> <<>>]
NoResponse == << <<>>, None >>
NoEntry == [value |-> <<>>, stored |-> 0, held |-> FALSE]
NoResult == [calls |-> 0, symbol |-> "", value |-> <<>>]
NoInput == [sent |-> FALSE, input |-> <<>>, voice |-> ""]

\* ------------------------------------------------- JSON and text helpers
\* json.loads on the argument texts above (main.py:232): the parsed value,
\* or the JSONDecodeError it raises.
JsonLoads(text) ==
    CASE text = "{\"symbol\": \"aapl\"}" ->
            [ok |-> TRUE, type |-> "dict", keys |-> {"symbol"}, symbol |-> "aapl"]
      [] text = "{}" ->
            [ok |-> TRUE, type |-> "dict", keys |-> {}, symbol |-> ""]
      [] text = "[]" ->
            [ok |-> TRUE, type |-> "list", keys |-> {}, symbol |-> ""]
      [] OTHER ->
            [ok |-> FALSE, type |-> "JSONDecodeError", keys |-> {}, symbol |-> ""]

\* arguments.get("symbol", "") on a parsed dict (main.py:193).
DictGetSymbol(arguments) ==
    IF "symbol" \in arguments.keys THEN arguments.symbol ELSE ""

\* str.upper on the symbols of the model (main.py:36, 46).
Upper(symbol) == IF symbol = "aapl" THEN "AAPL" ELSE symbol

\* A Python dict with string keys, as far as the model looks into it: its
\* key set, and the values under "error" and "symbol".
ErrorDict(msg) == [keys |-> {"error"}, error |-> msg, symbol |-> ""]

\* json.dumps of such a dict: a JSON text holding an object with members.
JsonDumps(d) == [json |-> "object", members |-> d]

\* Whether a JSON text is an object with an "error" member.
HasErrorKey(output) ==
    output.json = "object" /\ "error" \in output.members.keys

\* str(e) for the exceptions of the model.
StrOf(e) ==
    CASE e = "APIConnectionError" -> "Connection error."
      [] e = "JSONDecodeError" -> "Expecting property name enclosed in double quotes"
      [] e = "IndexError" -> "list index out of range"
      [] e = "AttributeError" -> "object has no attribute"
      [] OTHER -> e

\* The two strings chat_with_assistant builds, as their fragments.
ErrorText(e) == <<"Error: ", StrOf(e)>>
RunFailedText(status) == <<"Error: Run failed with status ", status>>

\* ------------------------------------------------- market-data functions
\* What the provider does for one call: returns data, or returns nothing
\* usable (empty history or an exception, both caught by the function).
MarketOutcomes == {"data", "error"}

\* get_stock_data (main.py:32-56): a quote, or an {"error": ...} value.
get_stock_data(symbol, md) ==
    IF md = "data"
    THEN [keys |-> {"symbol", "current_price", "company_name", "market_cap",
                    "pe_ratio", "52_week_high", "52_week_low", "volume"},
          error |-> <<>>, symbol |-> Upper(symbol)]
    ELSE ErrorDict(<<"No data available for ", symbol>>)

\* get_market_overview (main.py:59-109): a mapping from index names; a
\* failing index carries its own nested error, never a top-level one.
get_market_overview(md) ==
    IF md = "data"
    THEN [keys |-> {"S&P 500", "NASDAQ", "Gold"}, error |-> <<>>, symbol |-> ""]
    ELSE [keys |-> {"S&P 500"}, error |-> <<>>, symbol |-> ""]

\* ------------------------------------------------------- tool dispatcher
\* handle_function_call (main.py:189-202) on an already parsed arguments
\* value: the JSON text it returns and the market-data function it called.
\* Any exception of the body is caught at main.py:201.
handle_function_call(function_name, arguments, md) ==
    IF function_name = "get_stock_data"
    THEN IF arguments.type # "dict"
         THEN [output |-> JsonDumps(ErrorDict(<<StrOf("AttributeError")>>)),
               invoked |-> "none"]
         ELSE [output |-> JsonDumps(get_stock_data(DictGetSymbol(arguments), md)),
               invoked |-> "get_stock_data"]
    ELSE IF function_name = "get_market_overview"
    THEN [output |-> JsonDumps(get_market_overview(md)),
          invoked |-> "get_market_overview"]
    ELSE [output |-> JsonDumps(ErrorDict(<<"Function not implemented">>)),
          invoked |-> "none"]

\* --------------------------------------------------- the remote service
\* A tool call as the remote run presents it (main.py:227, 231-232, 236).
ToolCall(id, name, arguments) ==
    [id |-> id, function |-> [name |-> name, arguments |-> arguments]]

\* Call ids are unique within a run: the k-th call of the given batch.
CallId(round, k) == round * 10 + k

\* For each batch number of a run, the batches of pending tool calls the
\* remote may issue as that batch.
BatchesOf ==
    [round \in 1..MaxRounds |->
        UNION { { [k \in 1..n |-> ToolCall(CallId(round, k), f[k][1], f[k][2])] :
                    f \in [1..n -> ToolCallShapes] } : n \in 1..MaxCalls }]

Batches(round) == BatchesOf[round]

\* A run as the remote holds it, right after runs.create accepted it.
FreshRun(t) ==
    [thread |-> t, status |-> "queued"]

\* The remote run `old` once it shows status s: what the service holds,
\* and the pending batch b it presents when s is requires_action.
Observed(old, s, b) ==
    [held |-> [old EXCEPT !.status = s],
     tool_calls |-> IF s = "requires_action" THEN b ELSE <<>>,
     rounds |-> IF s = "requires_action" THEN rounds + 1 ELSE rounds]

\* The statuses among S the run may move to: requires_action only while the
\* remote has batches left to issue.
Allowed(S) ==
    IF rounds < MaxRounds THEN S ELSE S \ {"requires_action"}

\* Every state of the remote run after moving to one of the statuses S.
Shown(old, S) ==
    UNION { IF s = "requires_action"
            THEN {Observed(old, s, b) : b \in Batches(rounds + 1)}
            ELSE {Observed(old, s, <<>>)} : s \in Allowed(S) }

\* Run state machine of the service: queued -> in_progress ->
\* {requires_action -> ...}* -> completed, any state -> a failure status.
Ahead(status) ==
    CASE status = "queued" -> {"in_progress", "requires_action"} \cup TERMINAL
      [] status = "in_progress" -> {"requires_action"} \cup TERMINAL
      [] OTHER -> {}

\* The run object the client library hands to the caller.
LocalRun(id, rr) ==
    [id |-> id, status |-> rr.held.status, tool_calls |-> rr.tool_calls]

\* ---------------------------------------------------------------- Init
\* The parts of the state outside the session and the call: nothing cached,
\* nothing spoken.
Untouched ==
    /\ cache = [s \in Symbols |-> NoEntry]
    /\ now = 0
    /\ upstream = 0
    /\ provided = [s \in Symbols |-> NoEntry]
    /\ last = NoResult
    /\ tts_text = <<>>
    /\ tts_input = NoInput
    /\ tts_audio = "None"

\* A session at rest whose key is configured and whose assistant is
\* provisioned (main.py:16-28, 300-307, 396-403), before any chat.
Init ==
    /\ openai_api_key = ConfiguredKey
    /\ session_assistant_id = 1
    /\ assistants = 1
    /\ assistant_id = None
    /\ posted = FALSE
    /\ Untouched
    /\ session_thread_id = None
    /\ session_messages = <<>>
    /\ prompts = 0
    /\ pc = "idle"
    /\ thread_id = None
    /\ run = NoRun
    /\ tool_calls = <<>>
    /\ tool_outputs = <<>>
    /\ taken = 0
    /\ messages_data = <<>>
    /\ response = NoResponse
    /\ exc = NoExc
    /\ threads = 0
    /\ runs = <<>>
    /\ sent = NoSent
    /\ rounds = 0
    /\ invoked = <<>>
    /\ handled_for = {}
    /\ looped = FALSE
    /\ listed = FALSE
    /\ error_sent = FALSE

\* ------------------------------------------------- chat_with_assistant
\* `if not thread_id` (main.py:213).
Falsy(id) == id = None

\* text.startswith(prefix).
StartsWith(text, prefix) ==
    Len(text) >= Len(prefix) /\ SubSeq(text, 1, Len(prefix)) = prefix

\* The sidebar's format check (main.py:304-306): the branch that reports
\* the key as configured.
SidebarAccepts(api_key) ==
    /\ api_key # <<>>
    /\ StartsWith(api_key, Sk)
    /\ Len(api_key) > 20

\* The gate of the main content (main.py:366): the else branch is taken.
GateOpen(api_key) == ~(api_key = <<>> \/ ~StartsWith(api_key, Sk))

\* Mutant of InLoop: the loop runs until the status is completed.
InLoopUntilCompleted(status) == status # "completed"

\* Mutant of InLoop: the loop goes on only while tool calls are pending.
InLoopOnAction(status) == status = "requires_action"

\* The loop condition (main.py:225).
InLoop(status) == status \in ACTIVE

\* Mutant of IsCompleted: the test after the loop is `!= "failed"`.
IsNotFailed(status) == status # "failed"

\* The test after the loop (main.py:248).
IsCompleted(status) == status = "completed"

\* Mutant of ExceptReturn: the except clause returns no thread id.
ExceptReturnNone(e) == <<ErrorText(e), None>>

\* The pair returned by the except clause (main.py:256).
ExceptReturn(e) == <<ErrorText(e), thread_id>>

\* Mutant of Except: the clause catches only ValueError and LookupError, so
\* an error of the remote service leaves chat_with_assistant as an exception.
ExceptNarrow(e, at) ==
    /\ exc' = [type |-> e, at |-> at]
    /\ IF e = "APIConnectionError"
       THEN /\ response' = NoResponse
            /\ pc' = "raised"
       ELSE /\ response' = ExceptReturn(e)
            /\ pc' = "returned"

\* The except clause (main.py:255-256): exception e, raised at `at`, is
\* caught and turned into a normal return.
Except(e, at) ==
    /\ exc' = [type |-> e, at |-> at]
    /\ response' = ExceptReturn(e)
    /\ pc' = "returned"

\* Mutant of AppendOutput: outputs that report an error are not collected.
AppendOutputUnlessError(outputs, tool_call, output) ==
    IF HasErrorKey(output)
    THEN outputs
    ELSE Append(outputs, [tool_call_id |-> tool_call.id, output |-> output])

\* One entry of tool_outputs (main.py:235-237).
AppendOutput(outputs, tool_call, output) ==
    Append(outputs, [tool_call_id |-> tool_call.id, output |-> output])

\* Mutant of FirstText: an empty list yields an empty answer.
FirstTextOrEmpty(data) ==
    IF data = <<>> \/ data[1] = <<>>
    THEN [ok |-> TRUE, value |-> "", exc |-> "none"]
    ELSE IF data[1][1].type # "text"
    THEN [ok |-> FALSE, value |-> "", exc |-> "AttributeError"]
    ELSE [ok |-> TRUE, value |-> data[1][1].value, exc |-> "none"]

\* messages.data[0].content[0].text.value (main.py:250).
FirstText(data) ==
    IF data = <<>> \/ data[1] = <<>>
    THEN [ok |-> FALSE, value |-> "", exc |-> "IndexError"]
    ELSE IF data[1][1].type # "text"
    THEN [ok |-> FALSE, value |-> "", exc |-> "AttributeError"]
    ELSE [ok |-> TRUE, value |-> data[1][1].value, exc |-> "none"]

\* process_user_input up to the call (main.py:261-272), and the entry of
\* chat_with_assistant with the session's thread id.
ProcessUserInput ==
    /\ pc = "idle"
    /\ prompts < MaxPrompts
    /\ GateOpen(openai_api_key)
    /\ session_assistant_id # None
    /\ assistant_id' = session_assistant_id
    /\ LET prompt == Prompts[(prompts % Len(Prompts)) + 1]
       IN  session_messages' =
             Append(session_messages, [role |-> "user", content |-> <<prompt>>])
    /\ prompts' = prompts + 1
    /\ thread_id' = session_thread_id
    /\ pc' = IF Falsy(session_thread_id) THEN "create_thread" ELSE "post_message"
    /\ UNCHANGED <<session_thread_id, run, tool_calls, tool_outputs, taken,
                   messages_data, response, exc, remote, ghost>>
    /\ UNCHANGED <<config, posted, gateway, speech>>

\* client.beta.threads.create() (main.py:214-215).
CreateThreadOk ==
    /\ pc = "create_thread"
    /\ threads' = threads + 1
    /\ thread_id' = threads + 1
    /\ pc' = "post_message"
    /\ UNCHANGED <<session, run, tool_calls, tool_outputs, taken, messages_data,
                   response, exc, runs, sent, rounds, ghost>>
    /\ UNCHANGED <<config, assistant_id, posted, gateway, speech>>

CreateThreadFail ==
    /\ pc = "create_thread"
    /\ Except("APIConnectionError", "threads.create")
    /\ UNCHANGED <<session, thread_id, run, tool_calls, tool_outputs, taken,
                   messages_data, remote, ghost>>
    /\ UNCHANGED <<config, assistant_id, posted, gateway, speech>>

\* client.beta.threads.messages.create(...) (main.py:217-219).
PostMessageOk ==
    /\ pc = "post_message"
    /\ pc' = "create_run"
    /\ UNCHANGED <<session, frame, remote, ghost>>
    /\ posted' = TRUE
    /\ UNCHANGED <<config, assistant_id, gateway, speech>>

\* Mutant of PostMessageFail: the failure to post is ignored and the call
\* goes on to create the Run.
PostMessageFailIgnored ==
    /\ pc = "post_message"
    /\ pc' = "create_run"
    /\ UNCHANGED <<session, frame, remote, ghost>>
    /\ UNCHANGED <<config, assistant_id, posted, gateway, speech>>

PostMessageFail ==
    /\ pc = "post_message"
    /\ Except("APIConnectionError", "messages.create")
    /\ UNCHANGED <<session, thread_id, run, tool_calls, tool_outputs, taken,
                   messages_data, remote, ghost>>
    /\ UNCHANGED <<config, assistant_id, posted, gateway, speech>>

\* client.beta.threads.runs.create(...) (main.py:221-223): the run may be
\* returned in any status.
CreateRunOk ==
    /\ pc = "create_run"
    /\ \E rr \in Shown(FreshRun(thread_id), Statuses) :
         /\ runs' = Append(runs, rr.held)
         /\ run' = LocalRun(Len(runs) + 1, rr)
         /\ rounds' = rr.rounds
    /\ pc' = "loop"
    /\ UNCHANGED <<session, thread_id, tool_calls, tool_outputs, taken, messages_data,
                   response, exc, threads, sent, ghost>>
    /\ UNCHANGED <<config, assistant_id, posted, gateway, speech>>

CreateRunFail ==
    /\ pc = "create_run"
    /\ Except("APIConnectionError", "runs.create")
    /\ UNCHANGED <<session, thread_id, run, tool_calls, tool_outputs, taken,
                   messages_data, remote, ghost>>
    /\ UNCHANGED <<config, assistant_id, posted, gateway, speech>>

\* requires_action branch, up to the for loop (main.py:226-228).
BeginBatch ==
    /\ pc = "loop"
    /\ InLoop(run.status)
    /\ run.status = "requires_action"
    /\ tool_calls' = run.tool_calls
    /\ tool_outputs' = <<>>
    /\ taken' = 0
    /\ invoked' = <<>>
    /\ looped' = TRUE
    /\ pc' = "for"
    /\ UNCHANGED <<session, thread_id, run, messages_data, response, exc,
                   remote, handled_for, listed, error_sent>>
    /\ UNCHANGED <<config, assistant_id, posted, gateway, speech>>

\* One iteration of the for loop (main.py:230-237).  json.loads runs
\* outside handle_function_call, so its exception reaches main.py:255.
ResolveToolCall ==
    /\ pc = "for"
    /\ taken < Len(tool_calls)
    /\ LET tool_call == tool_calls[taken + 1]
           function_name == tool_call.function.name
           arguments == JsonLoads(tool_call.function.arguments)
       IN  IF ~arguments.ok
           THEN /\ Except("JSONDecodeError", "json.loads")
                /\ UNCHANGED <<tool_outputs, taken, invoked, handled_for>>
           ELSE /\ \E md \in MarketOutcomes :
                     LET h == handle_function_call(function_name, arguments, md)
                     IN  /\ tool_outputs' =
                                AppendOutput(tool_outputs, tool_call, h.output)
                         /\ invoked' = Append(invoked, h.invoked)
                /\ taken' = taken + 1
                /\ handled_for' = handled_for \cup {run.status}
                /\ UNCHANGED <<pc, exc, response>>
    /\ UNCHANGED <<session, thread_id, run, tool_calls, messages_data, remote,
                   looped, listed, error_sent>>
    /\ UNCHANGED <<config, assistant_id, posted, gateway, speech>>

\* The request of submit_tool_outputs leaves (main.py:239-241).
SubmitSend ==
    /\ pc = "for"
    /\ taken = Len(tool_calls)
    /\ sent' = [run_id |-> run.id, tool_outputs |-> tool_outputs]
    /\ pc' = "submit"
    /\ UNCHANGED <<session, frame, threads, runs, rounds, ghost>>
    /\ UNCHANGED <<config, assistant_id, posted, gateway, speech>>

\* Mutant of SubmitResult: the result of submit_tool_outputs is not assigned.
SubmitResultDropped(old_run, rr) == old_run

\* `run = client...submit_tool_outputs(...)` (main.py:239): the returned
\* run replaces the loop's run.
SubmitResult(old_run, rr) == LocalRun(old_run.id, rr)

\* submit_tool_outputs returns the run (main.py:239): its status is the
\* loop's next status.  tool_calls and tool_outputs are dead from here on
\* (rebound at main.py:227-228 before any read) and are dropped.
SubmitReturnOk ==
    /\ pc = "submit"
    /\ \E rr \in Shown(runs[run.id], Statuses) :
         /\ runs' = [runs EXCEPT ![run.id] = rr.held]
         /\ run' = SubmitResult(run, rr)
         /\ rounds' = rr.rounds
    /\ error_sent' = (error_sent \/ \E i \in 1..Len(sent.tool_outputs) :
                                       HasErrorKey(sent.tool_outputs[i].output))
    /\ sent' = NoSent
    /\ tool_calls' = <<>>
    /\ tool_outputs' = <<>>
    /\ taken' = 0
    /\ invoked' = <<>>
    /\ pc' = "loop"
    /\ UNCHANGED <<session, thread_id, messages_data, response, exc, threads,
                   handled_for, looped, listed>>
    /\ UNCHANGED <<config, assistant_id, posted, gateway, speech>>

SubmitReturnFail ==
    /\ pc = "submit"
    /\ Except("APIConnectionError", "runs.submit_tool_outputs")
    /\ sent' = NoSent
    /\ UNCHANGED <<session, thread_id, run, tool_calls, tool_outputs, taken,
                   messages_data, threads, runs, rounds, ghost>>
    /\ UNCHANGED <<config, assistant_id, posted, gateway, speech>>

\* else branch (main.py:242-246): sleep, then retrieve the same run.  The
\* remote run has not moved.
PollSame ==
    /\ pc = "loop"
    /\ InLoop(run.status)
    /\ run.status # "requires_action"
    /\ run' = run
    /\ looped' = TRUE
    /\ UNCHANGED <<session, pc, thread_id, tool_calls, tool_outputs, taken,
                   messages_data, response, exc, remote, invoked, handled_for,
                   listed, error_sent>>
    /\ UNCHANGED <<config, assistant_id, posted, gateway, speech>>

\* else branch (main.py:242-246), the remote run has moved on.
PollProgress ==
    /\ pc = "loop"
    /\ InLoop(run.status)
    /\ run.status # "requires_action"
    /\ \E rr \in Shown(runs[run.id], Ahead(runs[run.id].status)) :
         /\ runs' = [runs EXCEPT ![run.id] = rr.held]
         /\ run' = LocalRun(run.id, rr)
         /\ rounds' = rr.rounds
    /\ looped' = TRUE
    /\ UNCHANGED <<session, pc, thread_id, tool_calls, tool_outputs, taken,
                   messages_data, response, exc, threads, sent, invoked,
                   handled_for, listed, error_sent>>
    /\ UNCHANGED <<config, assistant_id, posted, gateway, speech>>

PollFail ==
    /\ pc = "loop"
    /\ InLoop(run.status)
    /\ run.status # "requires_action"
    /\ Except("APIConnectionError", "runs.retrieve")
    /\ looped' = TRUE
    /\ UNCHANGED <<session, thread_id, run, tool_calls, tool_outputs, taken,
                   messages_data, remote, invoked, handled_for, listed, error_sent>>
    /\ UNCHANGED <<config, assistant_id, posted, gateway, speech>>

\* completed (main.py:248-251): list the messages, return the first text.
ListOk ==
    /\ pc = "loop"
    /\ ~InLoop(run.status)
    /\ IsCompleted(run.status)
    /\ listed' = TRUE
    /\ \E data \in RemoteMessages :
         /\ messages_data' = data
         /\ LET first == FirstText(data)
            IN  IF first.ok
                THEN /\ response' = << <<first.value>>, thread_id >>
                     /\ pc' = "returned"
                     /\ exc' = exc
                ELSE Except(first.exc, "messages.data[0]")
    /\ UNCHANGED <<session, thread_id, run, tool_calls, tool_outputs, taken, remote,
                   invoked, handled_for, looped, error_sent>>
    /\ UNCHANGED <<config, assistant_id, posted, gateway, speech>>

ListFail ==
    /\ pc = "loop"
    /\ ~InLoop(run.status)
    /\ IsCompleted(run.status)
    /\ listed' = TRUE
    /\ Except("APIConnectionError", "messages.list")
    /\ UNCHANGED <<session, thread_id, run, tool_calls, tool_outputs, taken,
                   messages_data, remote, invoked, handled_for, looped, error_sent>>
    /\ UNCHANGED <<config, assistant_id, posted, gateway, speech>>

\* Any other status (main.py:252-253).
RunFailed ==
    /\ pc = "loop"
    /\ ~InLoop(run.status)
    /\ ~IsCompleted(run.status)
    /\ response' = <<RunFailedText(run.status), thread_id>>
    /\ pc' = "returned"
    /\ UNCHANGED <<session, thread_id, run, tool_calls, tool_outputs, taken,
                   messages_data, exc, remote, ghost>>
    /\ UNCHANGED <<config, assistant_id, posted, gateway, speech>>

\* ----------------------------------------------------------- the session
\* Mutant of AppendAssistant: an error string is shown but not recorded.
AppendAssistantUnlessError(messages, text) ==
    IF text # <<>> /\ text[1] = "Error: "
    THEN messages
    ELSE Append(messages, [role |-> "assistant", content |-> text])

\* st.session_state.messages.append({"role": "assistant", ...}) (main.py:276).
AppendAssistant(messages, text) ==
    Append(messages, [role |-> "assistant", content |-> text])

\* process_user_input after the call (main.py:273-276); the frame of
\* chat_with_assistant is gone.
StoreResult ==
    /\ pc = "returned"
    /\ session_thread_id' = response[2]
    /\ session_messages' = AppendAssistant(session_messages, response[1])
    /\ pc' = "idle"
    /\ thread_id' = None
    /\ run' = NoRun
    /\ tool_calls' = <<>>
    /\ tool_outputs' = <<>>
    /\ taken' = 0
    /\ messages_data' = <<>>
    /\ response' = NoResponse
    /\ exc' = NoExc
    /\ invoked' = <<>>
    /\ handled_for' = {}
    /\ looped' = FALSE
    /\ listed' = FALSE
    /\ error_sent' = FALSE
    /\ rounds' = 0
    /\ assistant_id' = None
    /\ posted' = FALSE
    /\ UNCHANGED <<prompts, threads, runs, sent, config, gateway, speech>>

\* The Clear Chat button (main.py:358-361), which the sidebar shows for a
\* key it accepts (main.py:306); st.rerun() starts the next pass, which
\* provisions the assistant if the session has none (main.py:398-400).
ClearChat ==
    /\ pc = "idle"
    /\ SidebarAccepts(openai_api_key)
    /\ session_messages' = <<>>
    /\ session_thread_id' = None
    /\ pc' = IF GateOpen(openai_api_key) /\ session_assistant_id = None
             THEN "provision"
             ELSE "idle"
    /\ UNCHANGED <<prompts, frame, remote, ghost>>
    /\ UNCHANGED <<config, assistant_id, posted, gateway, speech>>

Next ==
    \/ ProcessUserInput
    \/ CreateThreadOk
    \/ CreateThreadFail
    \/ PostMessageOk
    \/ PostMessageFail
    \/ CreateRunOk
    \/ CreateRunFail
    \/ BeginBatch
    \/ ResolveToolCall
    \/ SubmitSend
    \/ SubmitReturnOk
    \/ SubmitReturnFail
    \/ PollSame
    \/ PollProgress
    \/ PollFail
    \/ ListOk
    \/ ListFail
    \/ RunFailed
    \/ StoreResult
    \/ ClearChat

Spec == Init /\ [][Next]_vars

\* The steps chat_with_assistant and process_user_input take by themselves
\* when no remote call fails, with a remote run that moves on when polled.
Progress ==
    \/ CreateThreadOk
    \/ PostMessageOk
    \/ CreateRunOk
    \/ BeginBatch
    \/ ResolveToolCall
    \/ SubmitSend
    \/ SubmitReturnOk
    \/ PollProgress
    \/ ListOk
    \/ RunFailed
    \/ StoreResult

\* The script runs on while it can, and the remote service eventually moves
\* the run it is polled for; remote failures and user input are not forced.
LiveSpec == Spec /\ WF_vars(Progress)

\* ------------------------------------------- one call of chat_with_assistant
\* The sessions a single call starts from: a fresh session, and a session
\* that holds a thread (its first exchange created the thread and then
\* failed to post the message).
CallInit ==
    \/ Init
    \/ /\ session_thread_id = 1
       /\ session_messages =
              << [role |-> "user", content |-> <<Prompts[1]>>],
                 [role |-> "assistant",
                  content |-> ErrorText("APIConnectionError")] >>
       /\ prompts = 0
       /\ pc = "idle"
       /\ thread_id = None
       /\ run = NoRun
       /\ tool_calls = <<>>
       /\ tool_outputs = <<>>
       /\ taken = 0
       /\ messages_data = <<>>
       /\ response = NoResponse
       /\ exc = NoExc
       /\ threads = 1
       /\ runs = <<>>
       /\ sent = NoSent
       /\ rounds = 0
       /\ invoked = <<>>
       /\ handled_for = {}
       /\ looped = FALSE
       /\ listed = FALSE
       /\ error_sent = FALSE
       /\ openai_api_key = ConfiguredKey
       /\ session_assistant_id = 1
       /\ assistants = 1
       /\ assistant_id = None
       /\ posted = FALSE
       /\ Untouched

\* The one user input of such a session.
CallStart == prompts = 0 /\ ProcessUserInput

CallNext ==
    \/ CallStart
    \/ CreateThreadOk
    \/ CreateThreadFail
    \/ PostMessageOk
    \/ PostMessageFail
    \/ CreateRunOk
    \/ CreateRunFail
    \/ BeginBatch
    \/ ResolveToolCall
    \/ SubmitSend
    \/ SubmitReturnOk
    \/ SubmitReturnFail
    \/ PollSame
    \/ PollProgress
    \/ PollFail
    \/ ListOk
    \/ ListFail
    \/ RunFailed
    \/ StoreResult

\* One process_user_input, with its chat_with_assistant call, from either
\* session.
CallSpec == CallInit /\ [][CallNext]_vars

LiveCallSpec == CallSpec /\ WF_vars(Progress)

\* ------------------------------------------------------- the script pass
\* The session as the script constructs it (main.py:16-28): no key, no
\* assistant, no thread, an empty transcript.
FreshSession ==
    /\ openai_api_key = <<>>
    /\ session_assistant_id = None
    /\ assistants = 0
    /\ assistant_id = None
    /\ posted = FALSE
    /\ Untouched
    /\ session_thread_id = None
    /\ session_messages = <<>>
    /\ prompts = 0
    /\ pc = "idle"
    /\ thread_id = None
    /\ run = NoRun
    /\ tool_calls = <<>>
    /\ tool_outputs = <<>>
    /\ taken = 0
    /\ messages_data = <<>>
    /\ response = NoResponse
    /\ exc = NoExc
    /\ threads = 0
    /\ runs = <<>>
    /\ sent = NoSent
    /\ rounds = 0
    /\ invoked = <<>>
    /\ handled_for = {}
    /\ looped = FALSE
    /\ listed = FALSE
    /\ error_sent = FALSE

\* Mutant of OnApiKeyChange: a new key also starts a new conversation.
OnApiKeyChangeNewChat(api_key) ==
    [openai_api_key |-> api_key, assistant_id |-> None,
     thread_id |-> None, messages |-> <<>>]

\* The session after the key typed in the sidebar differs from the stored
\* one (main.py:300-302).
OnApiKeyChange(api_key) ==
    [openai_api_key |-> api_key, assistant_id |-> None,
     thread_id |-> session_thread_id, messages |-> session_messages]

\* A pass after the user typed another key (main.py:292-302), up to the
\* gate of the main content (main.py:366) and the test of main.py:398.
EnterApiKey ==
    /\ pc = "idle"
    /\ assistants < MaxAssistants
    /\ \E api_key \in ApiKeys :
         /\ api_key # openai_api_key
         /\ LET after == OnApiKeyChange(api_key)
            IN  /\ openai_api_key' = after.openai_api_key
                /\ session_assistant_id' = after.assistant_id
                /\ session_thread_id' = after.thread_id
                /\ session_messages' = after.messages
         /\ pc' = IF GateOpen(api_key) THEN "provision" ELSE "idle"
    /\ UNCHANGED <<prompts, frame, remote, ghost, assistants, assistant_id,
                   posted, gateway, speech>>

\* create_assistant returns an id (main.py:121-166, 400-403); the pass goes
\* on to render the chat.
ProvisionOk ==
    /\ pc = "provision"
    /\ assistants' = assistants + 1
    /\ session_assistant_id' = assistants + 1
    /\ pc' = "idle"
    /\ UNCHANGED <<session, frame, remote, ghost, openai_api_key, assistant_id,
                   posted, gateway, speech>>

\* create_assistant returns None (main.py:167-169); st.stop() ends the pass
\* (main.py:404-406).
ProvisionFail ==
    /\ pc = "provision"
    /\ pc' = "idle"
    /\ UNCHANGED <<session, frame, remote, ghost, config, assistant_id,
                   posted, gateway, speech>>

\* The sessions a script pass starts from: the constructed one, and the
\* configured ones of CallInit.
ScriptInit == FreshSession \/ CallInit

ScriptNext ==
    \/ EnterApiKey
    \/ ProvisionOk
    \/ ProvisionFail
    \/ ClearChat
    \/ CallStart
    \/ CreateThreadOk
    \/ CreateThreadFail
    \/ PostMessageOk
    \/ PostMessageFail
    \/ CreateRunOk
    \/ CreateRunFail
    \/ BeginBatch
    \/ ResolveToolCall
    \/ SubmitSend
    \/ SubmitReturnOk
    \/ SubmitReturnFail
    \/ PollSame
    \/ PollProgress
    \/ PollFail
    \/ ListOk
    \/ ListFail
    \/ RunFailed
    \/ StoreResult

\* The script with its sidebar: key changes, provisioning, Clear Chat and
\* one chat input.
ScriptSpec == ScriptInit /\ [][ScriptNext]_vars

\* ------------------------------------------- the cache of get_stock_data
\* st.cache_data(ttl=300) (main.py:32) keeps the value the function
\* returned for an argument and serves it while the entry is younger than
\* the ttl; at exactly the ttl either may happen.
Fresh(entry) == entry.held /\ now - entry.stored <= CacheTtl
Stale(entry) == ~entry.held \/ now - entry.stored >= CacheTtl

\* Mutant of CacheStore: a value that reports an error is not kept.
CacheStoreUnlessError(entries, symbol, value) ==
    IF "error" \in value.keys
    THEN entries
    ELSE [entries EXCEPT ![symbol] = [value |-> value, stored |-> now,
                                      held |-> TRUE]]

\* The entry made after the function body returned (main.py:32, 41, 45, 56:
\* every path of get_stock_data returns, none raises).
CacheStore(entries, symbol, value) ==
    [entries EXCEPT ![symbol] = [value |-> value, stored |-> now, held |-> TRUE]]

\* get_stock_data(symbol) served from the cache.
GetStockDataHit ==
    /\ last.calls < MaxLookups
    /\ \E symbol \in Symbols :
         /\ Fresh(cache[symbol])
         /\ last' = [calls |-> last.calls + 1, symbol |-> symbol,
                     value |-> cache[symbol].value]
    /\ UNCHANGED <<cache, now, upstream, provided>>
    /\ UNCHANGED <<session, pc, frame, remote, ghost, config, assistant_id,
                   posted, speech>>

\* get_stock_data(symbol) running its body (main.py:35-56): the provider is
\* asked, and the value returned is cached.
GetStockDataMiss ==
    /\ last.calls < MaxLookups
    /\ \E symbol \in Symbols, md \in MarketOutcomes :
         LET value == get_stock_data(symbol, md)
         IN  /\ Stale(cache[symbol])
             /\ cache' = CacheStore(cache, symbol, value)
             /\ provided' = [provided EXCEPT ![symbol] =
                                [value |-> value, stored |-> now, held |-> TRUE]]
             /\ last' = [calls |-> last.calls + 1, symbol |-> symbol,
                         value |-> value]
    /\ upstream' = upstream + 1
    /\ UNCHANGED now
    /\ UNCHANGED <<session, pc, frame, remote, ghost, config, assistant_id,
                   posted, speech>>

\* Half a cache window passes.
Tick ==
    /\ now < MaxTicks * (CacheTtl \div 2)
    /\ now' = now + (CacheTtl \div 2)
    /\ UNCHANGED <<cache, upstream, provided, last>>
    /\ UNCHANGED <<session, pc, frame, remote, ghost, config, assistant_id,
                   posted, speech>>

CacheNext ==
    \/ GetStockDataHit
    \/ GetStockDataMiss
    \/ Tick

\* get_stock_data called over time with the arguments of Symbols.
CacheSpec == Init /\ [][CacheNext]_vars

\* -------------------------------------------------------- text_to_speech
\* The truncation marker (main.py:178).
Marker == <<".", ".", ".">>

\* Mutant of SpeechInput: a text of exactly the limit is truncated too.
SpeechInputInclusive(text) ==
    IF Len(text) >= TtsLimit
    THEN SubSeq(text, 1, TtsLimit) \o Marker
    ELSE text

\* The input= of the speech request (main.py:177-181).
SpeechInput(text) ==
    IF Len(text) > TtsLimit
    THEN SubSeq(text, 1, TtsLimit) \o Marker
    ELSE text

\* text_to_speech with the session's voice (main.py:28, 172-183): the
\* speech service returns the audio.
TextToSpeechOk ==
    /\ pc = "idle"
    /\ GateOpen(openai_api_key)
    /\ session_assistant_id # None
    /\ \E text \in SpeechTexts :
         /\ tts_text' = text
         /\ tts_input' = [sent |-> TRUE, input |-> SpeechInput(text),
                          voice |-> "alloy"]
    /\ tts_audio' = "mp3"
    /\ UNCHANGED <<session, pc, frame, remote, ghost, config, assistant_id,
                   posted, gateway>>

\* The speech request raises (main.py:184-186): None is returned.
TextToSpeechFail ==
    /\ pc = "idle"
    /\ GateOpen(openai_api_key)
    /\ session_assistant_id # None
    /\ \E text \in SpeechTexts :
         /\ tts_text' = text
         /\ tts_input' = [sent |-> TRUE, input |-> SpeechInput(text),
                          voice |-> "alloy"]
    /\ tts_audio' = "None"
    /\ UNCHANGED <<session, pc, frame, remote, ghost, config, assistant_id,
                   posted, gateway>>

SpeechNext ==
    \/ TextToSpeechOk
    \/ TextToSpeechFail

\* text_to_speech applied to the texts of SpeechTexts, in a configured
\* session.
SpeechSpec == Init /\ [][SpeechNext]_vars

\* ------------------------------------------------------------------ C1
\* C1: every submit_tool_outputs request for a Run observed in
\* requires_action with N pending tool calls carries exactly N outputs, the
\* k-th with the tool_call_id of the k-th pending call (so each pending call
\* has exactly one output and the ids are those of distinct calls), whether
\* the handlers produced data or an error.
C1_OneOutputPerPendingCall ==
    sent.run_id # None =>
        /\ sent.run_id = run.id
        /\ run.status = "requires_action"
        /\ Len(sent.tool_outputs) = Len(run.tool_calls)
        /\ \A k \in 1..Len(run.tool_calls) :
               sent.tool_outputs[k].tool_call_id = run.tool_calls[k].id
        /\ \A k, m \in 1..Len(sent.tool_outputs) :
               k # m => sent.tool_outputs[k].tool_call_id
                            # sent.tool_outputs[m].tool_call_id

\* A batch of two calls is in flight, one handler having failed and the
\* other having returned data.
C1_Witness ==
    /\ sent.run_id # None
    /\ Len(run.tool_calls) = 2
    /\ \E k, m \in 1..2 :
         /\ HasErrorKey(sent.tool_outputs[k].output)
         /\ ~HasErrorKey(sent.tool_outputs[m].output)

\* ------------------------------------------------------------------ C2
\* The tool names with a handler (main.py:192, 196).
Registered == {"get_stock_data", "get_market_overview"}

\* A tool call whose execution fails: unknown tool name, malformed
\* arguments JSON, or a handler that raises (arguments that are no object).
ToolError(tool_call) ==
    \/ tool_call.function.name \notin Registered
    \/ ~JsonLoads(tool_call.function.arguments).ok
    \/ /\ tool_call.function.name = "get_stock_data"
       /\ JsonLoads(tool_call.function.arguments).type # "dict"

\* C2: a tool execution error of any kind is contained per call: every call
\* the for loop has taken has its output, an object with an "error" member
\* when the call is in error, and chat_with_assistant does not return while
\* the Run still requires action unless a remote call failed.
C2_ToolErrorContained ==
    /\ (pc \in {"for", "submit", "returned"} /\ run.status = "requires_action")
           => Len(tool_outputs) = taken
    /\ \A k \in 1..Len(tool_outputs) :
           ToolError(tool_calls[k]) => HasErrorKey(tool_outputs[k].output)
    /\ (pc = "returned" /\ run.status = "requires_action")
           => exc.type = "APIConnectionError"

\* ------------------------------------------------------------------ C3
\* C3: at most one Run of a conversation is unresolved at a time: no two
\* runs of the same thread are both in a non-terminal status.
C3_OneUnresolvedRunPerThread ==
    \A a, b \in 1..Len(runs) :
        (a # b /\ runs[a].thread = runs[b].thread)
            => ~(runs[a].status \in ACTIVE /\ runs[b].status \in ACTIVE)

\* ------------------------------------------------------------------ C4
\* C4: no exception leaves chat_with_assistant, and once a remote call has
\* failed the call has returned the pair (error text, thread_id).
C4_RemoteFailureReturnsPair ==
    /\ pc # "raised"
    /\ exc.type = "APIConnectionError" =>
           /\ pc = "returned"
           /\ response = <<ErrorText("APIConnectionError"), thread_id>>

\* submit_tool_outputs failed in the middle of the loop, on an existing
\* thread, and the call has returned.
C4_Witness ==
    /\ pc = "returned"
    /\ exc = [type |-> "APIConnectionError", at |-> "runs.submit_tool_outputs"]
    /\ thread_id # None
    /\ response[1] = <<"Error: ", "Connection error.">>

\* ------------------------------------------------------------------ C5
\* Statuses outside {queued, in_progress, requires_action, completed}.
OtherStatus(status) == status \notin (ACTIVE \cup {"completed"})

\* C5: while the current Run status is outside {queued, in_progress,
\* requires_action, completed}, the only step of the loop is the exit with
\* the error string embedding the status: no poll, no batch, no listing;
\* once returned, the text is that string, messages were not listed, no tool
\* handler ran under that status, and none ran at all when the Run had that
\* status right after creation.
C5_OtherStatusExitsWithError ==
    (run.id # None /\ OtherStatus(run.status)) =>
        /\ pc \in {"loop", "returned"}
        /\ pc = "loop" =>
               /\ ENABLED RunFailed
               /\ ~ENABLED (BeginBatch \/ PollSame \/ PollProgress \/ PollFail
                               \/ ListOk \/ ListFail)
        /\ pc = "returned" =>
               /\ exc = NoExc
               /\ response = <<RunFailedText(run.status), thread_id>>
               /\ run.status \in {response[1][k] : k \in 1..Len(response[1])}
        /\ ~listed
        /\ run.status \notin handled_for
        /\ ~looped => handled_for = {}

\* The Run was failed right after creation and the call has returned.
C5_Witness ==
    /\ pc = "returned"
    /\ run.id # None
    /\ run.status = "failed"
    /\ ~looped
    /\ response[1] = <<"Error: Run failed with status ", "failed">>

\* ------------------------------------------------------------------ C6
\* C6: once the session holds a thread id, a step either leaves it
\* unchanged or is Clear Chat (which unsets it and empties the transcript);
\* no thread is created; and a running chat_with_assistant works on that
\* id, also when it ends in an error.
C6_ThreadIdKept ==
    [][session_thread_id # None =>
          /\ \/ session_thread_id' = session_thread_id
             \/ /\ pc = "idle"
                /\ session_thread_id' = None
                /\ session_messages' = <<>>
          /\ threads' = threads
          /\ pc' # "idle" => thread_id' = session_thread_id
          /\ pc' = "returned" => response'[2] = session_thread_id]_vars

\* A later call on the stored thread ended in an error and is about to
\* store the same id back.
C6_Witness ==
    /\ session_thread_id # None
    /\ pc = "returned"
    /\ exc # NoExc
    /\ response[2] = session_thread_id

\* ------------------------------------------------------------------ C7
\* json.dumps({"error": "Function not implemented"}) (main.py:200).
NotImplemented == JsonDumps(ErrorDict(<<"Function not implemented">>))

\* C7: a call to a tool that is not registered gets exactly the output
\* {"error": "Function not implemented"} without any market-data function
\* being invoked, and its batch is submitted: chat_with_assistant does not
\* return while the Run still shows that batch unless a remote call failed.
C7_UnknownToolSubmitted ==
    /\ \A k \in 1..Len(tool_outputs) :
           tool_calls[k].function.name \notin Registered =>
               /\ tool_outputs[k].output = NotImplemented
               /\ invoked[k] = "none"
    /\ ( /\ pc = "returned"
         /\ run.status = "requires_action"
         /\ \E k \in 1..Len(run.tool_calls) :
                run.tool_calls[k].function.name \notin Registered )
           => exc.type = "APIConnectionError"

\* ------------------------------------------------------------------ C8
\* C8: a step from the pending submission either fails in the remote call
\* or puts the loop back at its head with the returned Run as current run;
\* at the head of the loop the step taken is decided by the status alone:
\* requires_action starts a batch on the pending calls, queued and
\* in_progress poll (the loop goes on unless the poll fails), and the loop
\* is left without an exception only on a status outside these three.
C8_SubmitContinuesLoop ==
    [][/\ pc = "submit" =>
            \/ /\ pc' = "loop"
               /\ run'.id = run.id
               /\ run'.status = runs'[run.id].status
               /\ run'.status = "requires_action" => Len(run'.tool_calls) > 0
            \/ /\ pc' = "returned"
               /\ exc'.at = "runs.submit_tool_outputs"
       /\ (pc = "loop" /\ run.status = "requires_action") =>
            /\ pc' = "for"
            /\ tool_calls' = run.tool_calls
            /\ tool_outputs' = <<>>
       /\ (pc = "loop" /\ run.status \in {"queued", "in_progress"}) =>
            \/ pc' = "loop" /\ run'.id = run.id
            \/ pc' = "returned" /\ exc'.at = "runs.retrieve"
       /\ (pc = "loop" /\ pc' = "returned" /\ exc' = NoExc) =>
            run.status \notin ACTIVE]_vars

\* The second batch of the same Run has been resolved and is in flight.
C8_Witness ==
    /\ pc = "submit"
    /\ rounds = 2
    /\ Len(sent.tool_outputs) = Len(run.tool_calls)

\* ------------------------------------------------------------------ C9
\* C9: under LiveCallSpec a started chat_with_assistant eventually returns, and
\* a return without exception on status completed carries the text of the
\* first message of the list.
C9_EventuallyReturns ==
    /\ (pc \notin {"idle", "returned"}) ~> (pc = "returned")
    /\ [](( /\ pc = "returned"
            /\ exc = NoExc
            /\ run.status = "completed" ) =>
              /\ listed
              /\ Len(messages_data) > 0
              /\ response = << <<messages_data[1][1].value>>, thread_id >>)

\* The Run completed after the remote received an output with an error
\* payload, and the answer is the first of two different messages.
C9_Witness ==
    /\ pc = "returned"
    /\ exc = NoExc
    /\ run.status = "completed"
    /\ error_sent
    /\ Len(messages_data) = 2
    /\ messages_data[1] # messages_data[2]
    /\ response[1] = <<messages_data[1][1].value>>

\* ----------------------------------------------------------------- C10
\* C10: when the Run completed and the listed messages are empty, the call
\* returns the error text of the IndexError, not an empty or other answer.
C10_EmptyListIsError ==
    ( /\ pc = "returned"
      /\ listed
      /\ exc.at # "messages.list"
      /\ messages_data = <<>> ) =>
        /\ exc.type = "IndexError"
        /\ response = <<ErrorText("IndexError"), thread_id>>
        /\ response[1] # <<"">>

\* The Run completed, the list came back empty, the call has returned.
C10_Witness ==
    /\ pc = "returned"
    /\ run.status = "completed"
    /\ listed
    /\ exc.at = "messages.data[0]"
    /\ messages_data = <<>>

\* ----------------------------------------------------------------- C11
\* C11: while the key fails the sidebar's format check (prefix "sk-" and
\* more than 20 characters) or the session has no assistant, no
\* chat_with_assistant call is in progress (so no thread, message or run is
\* created), and a call in progress has an assistant_id that is set.
C11_ConfigErrorBlocksChat ==
    /\ (~SidebarAccepts(openai_api_key) \/ session_assistant_id = None)
           => pc \in {"idle", "provision"}
    /\ pc \notin {"idle", "provision"} => assistant_id # None

\* ----------------------------------------------------------------- C12
\* C12: the text text_to_speech sends to the speech service is the text it
\* was given when that has at most 4000 characters (4000 included), and
\* otherwise the first 4000 characters of it followed by "...".
C12_SpeechInputTruncated ==
    tts_input.sent =>
        /\ Len(tts_text) <= 4000 => tts_input.input = tts_text
        /\ Len(tts_text) > 4000 =>
               /\ Len(tts_input.input) = 4003
               /\ \A i \in 1..4000 : tts_input.input[i] = tts_text[i]
               /\ \A i \in 4001..4003 : tts_input.input[i] = "."

\* A text of 4002 varied characters was spoken: the request carried 4003.
C12_Witness ==
    /\ tts_input.sent
    /\ tts_audio = "mp3"
    /\ Len(tts_text) = 4002
    /\ tts_text[4002] # tts_text[4001]
    /\ Len(tts_input.input) = 4003

\* ----------------------------------------------------------------- C13
\* C13: a get_stock_data call made less than 300 seconds after the provider
\* was last asked for the same argument returns the value that fetch
\* returned, quote or error, and does not ask the provider; a call made
\* more than 300 seconds after it, or the first call for an argument, asks
\* the provider once.
C13_CachedWithinWindow ==
    [][last'.calls = last.calls + 1 =>
          LET p == provided[last'.symbol]
          IN  /\ (p.held /\ now - p.stored < 300) =>
                     /\ last'.value = p.value
                     /\ upstream' = upstream
              /\ (~p.held \/ now - p.stored > 300) =>
                     upstream' = upstream + 1]_vars

\* Two calls half a window apart with one fetch, which returned an error.
C13_Witness ==
    /\ last.calls = 2
    /\ upstream = 1
    /\ "error" \in last.value.keys
    /\ now > provided[last.symbol].stored

\* ----------------------------------------------------------------- C14
\* C14: in a chat_with_assistant call a thread is created only while
\* thread_id is unset and before anything else; the message is posted on a
\* thread, before the Run; the Run is created only after the message was
\* posted, on that thread; the loop runs only on a created Run; messages
\* are listed only on status completed.  After a failed thread creation no
\* message was posted, and after a failed post no Run was created.
C14_RemoteCallOrder ==
    /\ []( /\ posted => thread_id # None
           /\ run.id # None => posted
           /\ (looped \/ sent # NoSent) => run.id # None
           /\ listed => (run.id # None /\ run.status = "completed")
           /\ exc.at = "threads.create" =>
                  (thread_id = None /\ ~posted /\ run.id = None)
           /\ exc.at = "messages.create" =>
                  (~posted /\ run.id = None /\ ~looped /\ ~listed) )
    /\ [][ /\ threads' # threads =>
                  /\ thread_id = None
                  /\ ~posted
                  /\ run.id = None
                  /\ thread_id' = threads'
           /\ (~posted /\ posted') =>
                  /\ thread_id # None
                  /\ thread_id' = thread_id
                  /\ run.id = None
           /\ runs' # runs /\ Len(runs') # Len(runs) =>
                  /\ posted
                  /\ run.id = None
                  /\ ~looped
                  /\ Len(runs') = Len(runs) + 1
                  /\ runs'[Len(runs')].thread = thread_id
           /\ (~listed /\ listed') =>
                  (run.id # None /\ run.status = "completed") ]_vars

\* A call on a fresh session went through every stage: it created the
\* thread, posted, created the Run, submitted a batch, and listed.
C14_Witness ==
    /\ pc = "returned"
    /\ session_thread_id = None
    /\ thread_id # None
    /\ posted
    /\ error_sent
    /\ listed
    /\ exc = NoExc

\* ----------------------------------------------------------------- C15
\* The statuses under which the loop only polls (main.py:242-246).
Pending(status) == status \in {"queued", "in_progress"}

\* C15: at the head of the loop with the Run queued or in_progress, a poll
\* is possible and neither an exit nor a batch is; the step taken either
\* keeps the call in the loop on the same run id, touching neither thread,
\* session nor tool outputs, or is the return after a failed retrieve; and
\* as long as the status stays queued or in_progress without an exception,
\* however long, chat_with_assistant stays in the loop.
C15_PollsUntilStatusChanges ==
    /\ []((pc = "loop" /\ Pending(run.status)) =>
             /\ ENABLED PollSame
             /\ ~ENABLED (BeginBatch \/ ListOk \/ ListFail \/ RunFailed))
    /\ [][(pc = "loop" /\ Pending(run.status)) =>
             \/ /\ pc' = "loop"
                /\ run'.id = run.id
                /\ run'.status = runs'[run.id].status
                /\ response' = NoResponse
                /\ UNCHANGED <<session, thread_id, threads, sent, tool_outputs,
                               posted, listed>>
                /\ Len(runs') = Len(runs)
             \/ /\ pc' = "returned"
                /\ exc' = [type |-> "APIConnectionError", at |-> "runs.retrieve"]]_vars
    /\ []((pc = "loop" /\ Pending(run.status)) =>
             ([](Pending(run.status) /\ exc = NoExc) => [](pc = "loop")))

\* The call is polling an in_progress Run again after a submitted batch.
C15_Witness ==
    /\ pc = "loop"
    /\ run.status = "in_progress"
    /\ rounds >= 1
    /\ looped
    /\ exc = NoExc

\* ----------------------------------------------------------------- C16
\* C16: a step that changes the stored API key unsets the session's
\* assistant_id, leaves thread_id and the transcript as they are, and goes
\* on to provision when the new key opens the gate; nothing else unsets
\* the assistant_id; a step at rest that empties the transcript and unsets
\* thread_id (Clear Chat) leaves the key, the assistant_id and the remote
\* assistants as they are; and a call starts with the thread_id and the
\* assistant_id the session holds at that time.
C16_ResetsTouchOwnFields ==
    [][ /\ openai_api_key' # openai_api_key =>
              /\ session_assistant_id' = None
              /\ UNCHANGED <<session_thread_id, session_messages, prompts,
                             threads, runs, assistants>>
              /\ GateOpen(openai_api_key') => pc' = "provision"
        /\ (session_assistant_id # None /\ session_assistant_id' = None) =>
              openai_api_key' # openai_api_key
        /\ ( /\ pc = "idle"
             /\ session_messages' = <<>>
             /\ session_thread_id' = None
             /\ (session_messages # <<>> \/ session_thread_id # None) ) =>
              UNCHANGED <<openai_api_key, session_assistant_id, assistants>>
        /\ (pc = "idle" /\ pc' \notin {"idle", "provision"}) =>
              /\ thread_id' = session_thread_id
              /\ assistant_id' = session_assistant_id
              /\ UNCHANGED <<session_thread_id, config>> ]_vars

\* After a key change the call runs on the thread of the earlier exchange
\* with the assistant provisioned for the new key.
C16_Witness ==
    /\ pc = "create_run"
    /\ session_thread_id = 1
    /\ thread_id = 1
    /\ openai_api_key # ConfiguredKey
    /\ assistant_id = 2
    /\ Len(session_messages) = 3

\* ----------------------------------------------------------------- C17
\* The prompts of the model, as a set.
PromptSet == {Prompts[k] : k \in 1..Len(Prompts)}

\* C17: the transcript alternates user, assistant, starting with user; it
\* has even length between exchanges and one pending user entry during a
\* call; the step that starts process_user_input appends one user entry
\* with the prompt, the step that ends it appends one assistant entry with
\* the text chat_with_assistant returned, error string or not, and any
\* other step leaves the transcript alone or empties it at rest.
C17_TranscriptAlternates ==
    /\ []( /\ \A k \in 1..Len(session_messages) :
                  session_messages[k].role =
                      IF k % 2 = 1 THEN "user" ELSE "assistant"
           /\ pc \in {"idle", "provision"} <=> Len(session_messages) % 2 = 0 )
    /\ [][ /\ (pc = "idle" /\ pc' \notin {"idle", "provision"}) =>
                  \E prompt \in PromptSet :
                      session_messages' =
                          Append(session_messages,
                                 [role |-> "user", content |-> <<prompt>>])
           /\ (pc = "returned" /\ pc' = "idle") =>
                  session_messages' =
                      Append(session_messages,
                             [role |-> "assistant", content |-> response[1]])
           /\ ~(pc = "idle" /\ pc' \notin {"idle", "provision"})
                 /\ ~(pc = "returned" /\ pc' = "idle") =>
                  \/ session_messages' = session_messages
                  \/ pc = "idle" /\ session_messages' = <<>> ]_vars

\* Two exchanges are recorded, the first answered by an error string and
\* the second by a message of the assistant.
C17_Witness ==
    /\ pc = "idle"
    /\ Len(session_messages) = 4
    /\ session_messages[2].content[1] = "Error: "
    /\ session_messages[4].content[1] \in Texts

====
